---- MODULE Spec2Model ----
(***************************************************************************)
(* Model of ros2model/api/__init__.py: the line tokenizer (split_line),    *)
(* the type resolver (get_type_format) and the three entity builders       *)
(* (process_msg_file, process_srv_file, process_action_file).              *)
(*                                                                         *)
(* A Python str is modelled as a sequence of one-character strings, so     *)
(* that replace, split, strip and the regular expression substitution are  *)
(* computed character by character as the interpreter computes them.       *)
(* A Python dict is modelled as a sequence of [k, v] records in insertion  *)
(* order.                                                                  *)
(***************************************************************************)
EXTENDS Naturals, Sequences, FiniteSets, TLC

VARIABLES
  kind,          \* which entry point runs: "line" | "msg" | "srv" | "action"
  pc,            \* position of the running function
  package_name,  \* argument package_name
  line,          \* the loop variable `line` / the argument of split_line
  tok,           \* last result of split_line: <<type, name>>
  first,         \* result of the first split_line pass (re-tokenization runs)
  variablename,  \* local variablename of the builders
  typename,      \* local typename of the builders
  nread,         \* number of lines the open file has yielded
  message,       \* process_msg_file: dict message
  request,       \* process_srv_file: dict request
  response,      \* process_srv_file: dict response
  resp,          \* process_srv_file: flag resp
  goal,          \* process_action_file: dict goal
  result,        \* process_action_file: dict result
  feedback,      \* process_action_file: dict feedback
  border         \* process_action_file: counter border

vars == <<kind, pc, package_name, line, tok, first, variablename, typename,
          nread, message, request, response, resp, goal, result, feedback,
          border>>

----------------------------------------------------------------------------
(* Bounds of the model. *)

\* lines a builder reads from one file
MaxLines == 5

----------------------------------------------------------------------------
(* Python values. *)

\* None: a one-element tuple no str (a tuple of single characters) equals
None == <<"None">>

\* the empty dict
EmptyDict == <<>>

\* DictSet as d.setdefault(k, v): a key already present keeps its value
RECURSIVE DictSet_KeepFirst(_, _, _)
DictSet_KeepFirst(d, k, v) ==
  IF d = <<>> THEN <<[k |-> k, v |-> v]>>
  ELSE IF Head(d).k = k THEN d
  ELSE <<Head(d)>> \o DictSet_KeepFirst(Tail(d), k, v)

\* d[k] = v on a dict: overwrite in place when k is present, else append
RECURSIVE DictSet(_, _, _)
DictSet(d, k, v) ==
  IF d = <<>> THEN <<[k |-> k, v |-> v]>>
  ELSE IF Head(d).k = k THEN <<[k |-> k, v |-> v]>> \o Tail(d)
  ELSE <<Head(d)>> \o DictSet(Tail(d), k, v)

----------------------------------------------------------------------------
(* Python str methods, character by character. *)

\* the characters str.isspace() accepts, among those the model's lines use
IsWs(c) == c \in {" ", "\t", "\n", "\r"}

\* str.isspace(): non-empty and all whitespace
isspace(s) == Len(s) > 0 /\ \A i \in 1..Len(s) : IsWs(s[i])

\* sub occurs in s at index i
StartsAt(s, sub, i) ==
  /\ i + Len(sub) - 1 <= Len(s)
  /\ \A j \in 1..Len(sub) : s[i + j - 1] = sub[j]

\* s.startswith(sub)
startswith(s, sub) == StartsAt(s, sub, 1)

\* sub in s
Contains(s, sub) == \E i \in 1..Len(s) : StartsAt(s, sub, i)

\* s.replace(old, new): every non-overlapping occurrence, left to right
RECURSIVE replace(_, _, _)
replace(s, old, new) ==
  IF s = <<>> THEN <<>>
  ELSE IF StartsAt(s, old, 1)
       THEN new \o replace(SubSeq(s, Len(old) + 1, Len(s)), old, new)
       ELSE <<Head(s)>> \o replace(Tail(s), old, new)

\* s.lstrip()
RECURSIVE lstrip(_)
lstrip(s) == IF s # <<>> /\ IsWs(Head(s)) THEN lstrip(Tail(s)) ELSE s

\* s.rstrip()
RECURSIVE rstrip(_)
rstrip(s) ==
  IF s # <<>> /\ IsWs(s[Len(s)]) THEN rstrip(SubSeq(s, 1, Len(s) - 1)) ELSE s

\* s.strip()
strip(s) == rstrip(lstrip(s))

\* s.split("#")[0]: the text before the first "#"
RECURSIVE BeforeHash(_)
BeforeHash(s) ==
  IF s = <<>> \/ Head(s) = "#" THEN <<>>
  ELSE <<Head(s)>> \o BeforeHash(Tail(s))

\* the non-whitespace prefix of s
RECURSIVE Word(_)
Word(s) ==
  IF s = <<>> \/ IsWs(Head(s)) THEN <<>> ELSE <<Head(s)>> \o Word(Tail(s))

\* s.split(maxsplit=1): leading whitespace dropped, the first word, and, if
\* anything but whitespace follows it, the rest with its leading whitespace
\* dropped (trailing whitespace kept)
split_maxsplit1(s) ==
  LET t == lstrip(s)
      w == Word(t)
      r == lstrip(SubSeq(t, Len(w) + 1, Len(t)))
  IN  IF t = <<>> THEN <<>>
      ELSE IF r = <<>> THEN <<w>>
      ELSE <<w, r>>

\* re.sub(r"\[.*\]", "[]", s) on a string without "\n": the one match runs
\* from the first "[" to the last "]" (greedy), when the first "[" precedes it
re_sub_brackets(s) ==
  LET opens  == {i \in 1..Len(s) : s[i] = "["}
      closes == {i \in 1..Len(s) : s[i] = "]"}
  IN  IF opens = {} \/ closes = {} THEN s
      ELSE LET i == CHOOSE x \in opens : \A y \in opens : x <= y
               j == CHOOSE x \in closes : \A y \in closes : y <= x
           IN  IF i < j
               THEN SubSeq(s, 1, i - 1) \o <<"[", "]">> \o SubSeq(s, j + 1, Len(s))
               ELSE s

----------------------------------------------------------------------------
(* split_line, lines 51-75. *)

\* SplitTail with the "/" rewrite applied to the whole line before the split
\* instead of to split[0] alone
SplitTail_RewriteWholeLine(l) ==
  LET split == split_maxsplit1(
                 replace(re_sub_brackets(l), <<"/">>, <<"/", "m", "s", "g", "/">>))
  IN  IF Len(split) > 1 THEN <<strip(split[1]), strip(split[2])>>
      ELSE <<strip(split[1]), None>>

\* lines 67-75: from the regular expression substitution to the return
SplitTail(l) ==
  LET split == split_maxsplit1(re_sub_brackets(l))
      t     == strip(replace(split[1], <<"/">>, <<"/", "m", "s", "g", "/">>))
  IN  IF Len(split) > 1 THEN <<t, strip(split[2])>> ELSE <<t, None>>

\* split_line(line): <<type, name>>
split_line(l0) ==
  LET l1 == replace(l0, <<"\n">>, <<>>)
  IN  IF startswith(l1, <<"#">>) \/ Contains(l1, <<"=">>) \/ Len(l1) = 0
         \/ isspace(l1)
      THEN <<None, None>>
      ELSE LET l2 == IF Contains(l1, <<"#">>) THEN BeforeHash(l1) ELSE l1
           IN  IF isspace(l2) THEN <<None, None>> ELSE SplitTail(l2)

----------------------------------------------------------------------------
(* get_type_format, lines 144-184. *)

\* lines 146-161: the sixteen scalar entries of primitive_types
ScalarPrimitives ==
  { <<"b", "o", "o", "l">>,
    <<"i", "n", "t", "8">>,
    <<"u", "i", "n", "t", "8">>,
    <<"i", "n", "t", "1", "6">>,
    <<"u", "i", "n", "t", "1", "6">>,
    <<"i", "n", "t", "3", "2">>,
    <<"u", "i", "n", "t", "3", "2">>,
    <<"i", "n", "t", "6", "4">>,
    <<"u", "i", "n", "t", "6", "4">>,
    <<"f", "l", "o", "a", "t", "3", "2">>,
    <<"f", "l", "o", "a", "t", "6", "4">>,
    <<"s", "t", "r", "i", "n", "g">>,
    <<"b", "y", "t", "e">>,
    <<"t", "i", "m", "e">>,
    <<"d", "u", "r", "a", "t", "i", "o", "n">>,
    <<"H", "e", "a", "d", "e", "r">> }

\* lines 162-174: the array entries of primitive_types (thirteen: the list
\* holds no "time[]", "duration[]" or "Header[]")
ArrayPrimitives ==
  { <<"b", "o", "o", "l", "[", "]">>,
    <<"i", "n", "t", "8", "[", "]">>,
    <<"u", "i", "n", "t", "8", "[", "]">>,
    <<"i", "n", "t", "1", "6", "[", "]">>,
    <<"u", "i", "n", "t", "1", "6", "[", "]">>,
    <<"i", "n", "t", "3", "2", "[", "]">>,
    <<"u", "i", "n", "t", "3", "2", "[", "]">>,
    <<"i", "n", "t", "6", "4", "[", "]">>,
    <<"u", "i", "n", "t", "6", "4", "[", "]">>,
    <<"f", "l", "o", "a", "t", "3", "2", "[", "]">>,
    <<"f", "l", "o", "a", "t", "6", "4", "[", "]">>,
    <<"s", "t", "r", "i", "n", "g", "[", "]">>,
    <<"b", "y", "t", "e", "[", "]">> }

\* lines 145-175: the list primitive_types
primitive_types == ScalarPrimitives \cup ArrayPrimitives

\* FormatType without line 183: the array suffix stays inside the quotes
FormatType_SuffixInside(t, pkg) ==
  IF t \in primitive_types THEN t
  ELSE LET q == IF Contains(t, <<"/">>) THEN t
                ELSE pkg \o <<"/", "m", "s", "g", "/">> \o t
       IN  <<"'">> \o q \o <<"'">>

\* lines 178-183: the type string of a non-None type token
FormatType(t, pkg) ==
  IF t \in primitive_types THEN t
  ELSE LET q == IF Contains(t, <<"/">>) THEN t
                ELSE pkg \o <<"/", "m", "s", "g", "/">> \o t
           quoted == <<"'">> \o q \o <<"'">>
       IN  replace(quoted, <<"[", "]">>, <<>>) \o <<"[", "]">>

\* get_type_format(line, package_name): <<variablename, typename>>
get_type_format(l, pkg) ==
  LET s == split_line(l)
  IN  IF s[1] # None THEN <<s[2], FormatType(s[1], pkg)>> ELSE <<s[2], s[1]>>

----------------------------------------------------------------------------
(* Inputs of the tokenizer and resolver runs: lines assembled from a type  *)
(* token, a bracket annotation, a name part, a trailing comment and a line *)
(* end, and the pure comment, constant and blank lines.                    *)

\* type tokens that name no primitive and carry no package separator
UnscopedCompound == { <<"T">>, <<"P", "o", "s", "e">> }

\* type tokens that carry a package separator
ScopedCompound == { <<"p", "/", "T">> }

\* the declaring packages
Packages == { <<"p", "k", "g", "X">>, <<"q">> }

\* the bracket annotations: none, empty, fixed-size, bounded
Annotations == { <<>>, <<"[", "]">>, <<"[", "3", "]">>, <<"[", "<", "=", "3", "]">> }

\* field names
Names == { <<"a">>, <<"a", "b">> }

\* what follows the type token: nothing (an incomplete line), a name, a name
\* in extra whitespace, a name holding a "/", a name holding brackets
NameParts ==
  { <<>>, <<" ", "a">>, <<" ", "a", "b">>, <<"\t", " ", "b", " ">>, <<" ", "a", "/", "b">>, <<" ", "a", "[", "2", "]">> }

\* trailing inline comment
Trailers == { <<>>, <<" ", "#", " ", "c">> }

\* line ends: the last line of a file may lack its newline
LineEnds == { <<>>, <<"\n">> }

\* pure comments, constant declarations, empty and whitespace-only lines
NoiseLines ==
  { <<"#", " ", "c", "\n">>, <<"#", "-", "-", "-", "\n">>, <<"i", "n", "t", "3", "2", " ", "X", "=", "1", "\n">>,
    <<"i", "n", "t", "3", "2", " ", "X", " ", "=", " ", "1", "\n">>, <<>>, <<"\n">>, <<" ", "\n">>, <<" ", "\t">> }

\* every line the tokenizer and resolver runs start from
LineInputs ==
  { t \o an \o n \o tr \o e :
      t \in ScalarPrimitives \cup UnscopedCompound \cup ScopedCompound,
      an \in Annotations, n \in NameParts, tr \in Trailers, e \in LineEnds }
  \cup NoiseLines

----------------------------------------------------------------------------
(* The tokenizer and resolver applied to one line.                         *)

\* the line `type name` a first pass normalizes to (`type` alone when the
\* pass found no name)
NormalizedLine(t) == IF t[2] = None THEN t[1] ELSE t[1] \o <<" ">> \o t[2]

InitLine ==
  /\ kind = "line"
  /\ pc = "start"
  /\ package_name \in Packages
  /\ line \in LineInputs
  /\ tok = <<None, None>>
  /\ first = <<None, None>>
  /\ variablename = None
  /\ typename = None
  /\ nread = 0
  /\ message = EmptyDict
  /\ request = EmptyDict
  /\ response = EmptyDict
  /\ resp = FALSE
  /\ goal = EmptyDict
  /\ result = EmptyDict
  /\ feedback = EmptyDict
  /\ border = 0

\* split_line(line)
Tokenize ==
  /\ kind = "line"
  /\ pc = "start"
  /\ tok' = split_line(line)
  /\ pc' = "tokenized"
  /\ UNCHANGED <<kind, package_name, line, first, variablename, typename,
                 nread, message, request, response, resp, goal, result,
                 feedback, border>>

\* split_line applied again, to the line its first result normalizes to
Retokenize ==
  /\ kind = "line"
  /\ pc = "tokenized"
  /\ tok[1] # None
  /\ first' = tok
  /\ line' = NormalizedLine(tok)
  /\ tok' = split_line(NormalizedLine(tok))
  /\ pc' = "retokenized"
  /\ UNCHANGED <<kind, package_name, variablename, typename, nread, message,
                 request, response, resp, goal, result, feedback, border>>

\* get_type_format(line, package_name)
Format ==
  /\ kind = "line"
  /\ pc = "start"
  /\ variablename' = get_type_format(line, package_name)[1]
  /\ typename' = get_type_format(line, package_name)[2]
  /\ pc' = "formatted"
  /\ UNCHANGED <<kind, package_name, line, tok, first, nread, message,
                 request, response, resp, goal, result, feedback, border>>

NextLine == Tokenize \/ Retokenize \/ Format

SpecLine == InitLine /\ [][NextLine]_vars

----------------------------------------------------------------------------
(* The entity builders: one loop iteration per line of the file.           *)

\* the lines a file holds
FileLines ==
  { <<"i", "n", "t", "3", "2", " ", "a", "\n">>,
    <<"s", "t", "r", "i", "n", "g", " ", "a", "\n">>,
    <<"T", " ", "a", "b", "\n">>,
    <<"-", "-", "-", "\n">>,
    <<"#", "-", "-", "-", "\n">>,
    <<"#", " ", "c", "\n">>,
    <<"\n">>,
    <<" ", "\n">>,
    <<"i", "n", "t", "3", "2", " ", "X", "=", "1", "\n">>,
    <<"i", "n", "t", "3", "2", "\n">>,
    <<"i", "n", "t", "3", "2", "[", "3", "]", " ", "a", "b", "\n">>,
    <<"i", "n", "t", "3", "2", "[", "<", "=", "3", "]", " ", "a", "b", "\n">>,
    <<"i", "n", "t", "3", "2", "[", "]", " ", "a", "b", "\n">>,
    <<"p", "/", "T", "[", "2", "]", " ", "a", " ", "#", " ", "c", "\n">> }

\* the package whose files the builders read
DeclaringPackage == <<"p", "k", "g", "X">>

\* get_type_format on every line a builder can pass it (a line of the file,
\* as read or with its newline removed), evaluated once
TypeFormats ==
  [ l \in FileLines \cup { replace(f, <<"\n">>, <<>>) : f \in FileLines } |->
      get_type_format(l, DeclaringPackage) ]

\* the call get_type_format(l, pkg) of a builder
TypeFormat(l, pkg) ==
  IF pkg = DeclaringPackage /\ l \in DOMAIN TypeFormats
  THEN TypeFormats[l] ELSE get_type_format(l, pkg)

\* the separator test of lines 105 and 128: "---" in line
IsSeparator(l) == Contains(l, <<"-", "-", "-">>)

\* lines 89-92, 108-110, 131-133: the pair r that get_type_format returned
\* is unpacked into the locals
Unpack(s, r) == [s EXCEPT !.variablename = r[1], !.typename = r[2]]

\* lines 90-92: the store of process_msg_file
MsgStore(s, r) ==
  IF r[2] = None THEN Unpack(s, r)
  ELSE [Unpack(s, r) EXCEPT !.message = DictSet(s.message, r[1], r[2])]

\* lines 86-92: process_msg_file on a line without "=", newline removed
MsgField(s, l1, pkg) ==
  IF Len(l1) = 0 THEN s ELSE MsgStore(s, TypeFormat(l1, pkg))

\* process_msg_file, lines 83-92: one iteration of the loop
process_msg_line(s, l, pkg) ==
  IF Contains(l, <<"=">>) THEN s
  ELSE MsgField(s, replace(l, <<"\n">>, <<>>), pkg)

\* lines 109-114: the store of process_srv_file
SrvStore(s, r) ==
  IF r[2] = None THEN Unpack(s, r)
  ELSE IF s.resp
       THEN [Unpack(s, r) EXCEPT !.response = DictSet(s.response, r[1], r[2])]
       ELSE [Unpack(s, r) EXCEPT !.request = DictSet(s.request, r[1], r[2])]

\* process_srv_line with `resp = not resp` at line 106
process_srv_line_Toggle(s, l, pkg) ==
  IF IsSeparator(l) THEN [s EXCEPT !.resp = ~s.resp]
  ELSE SrvStore(s, TypeFormat(l, pkg))

\* process_srv_file, lines 104-114: one iteration of the loop
process_srv_line(s, l, pkg) ==
  IF IsSeparator(l) THEN [s EXCEPT !.resp = TRUE]
  ELSE SrvStore(s, TypeFormat(l, pkg))

\* lines 134-135: `if border == 0`
StoreGoal(s, b, r) ==
  IF b = 0 THEN [s EXCEPT !.goal = DictSet(s.goal, r[1], r[2])] ELSE s

\* lines 136-137: `if border == 1`
StoreResult(s, b, r) ==
  IF b = 1 THEN [s EXCEPT !.result = DictSet(s.result, r[1], r[2])] ELSE s

\* lines 138-139 with `border >= 2`
StoreFeedback_Open(s, b, r) ==
  IF b >= 2 THEN [s EXCEPT !.feedback = DictSet(s.feedback, r[1], r[2])] ELSE s

\* lines 138-139: `if border == 2`
StoreFeedback(s, b, r) ==
  IF b = 2 THEN [s EXCEPT !.feedback = DictSet(s.feedback, r[1], r[2])] ELSE s

\* lines 132-139: the store of process_action_file
ActionStore(s, r) ==
  IF r[2] = None THEN Unpack(s, r)
  ELSE StoreFeedback(
         StoreResult(StoreGoal(Unpack(s, r), s.border, r), s.border, r),
         s.border, r)

\* process_action_file, lines 127-139: one iteration of the loop
process_action_line(s, l, pkg) ==
  IF IsSeparator(l) THEN [s EXCEPT !.border = s.border + 1]
  ELSE ActionStore(s, TypeFormat(l, pkg))

\* the locals of each builder as one record
MsgState == [message |-> message, variablename |-> variablename,
             typename |-> typename]

SrvState == [request |-> request, response |-> response, resp |-> resp,
             variablename |-> variablename, typename |-> typename]

ActionState == [goal |-> goal, result |-> result, feedback |-> feedback,
                border |-> border, variablename |-> variablename,
                typename |-> typename]

\* lines 80-82, 99-103, 121-126: the locals before the first line is read
Init ==
  /\ kind \in {"msg", "srv", "action"}
  /\ pc = "scan"
  /\ package_name = DeclaringPackage
  /\ line = None
  /\ tok = <<None, None>>
  /\ first = <<None, None>>
  /\ variablename = None
  /\ typename = None
  /\ nread = 0
  /\ message = EmptyDict
  /\ request = EmptyDict
  /\ response = EmptyDict
  /\ resp = FALSE
  /\ goal = EmptyDict
  /\ result = EmptyDict
  /\ feedback = EmptyDict
  /\ border = 0

\* process_msg_file reads the next line
MsgLine ==
  /\ kind = "msg"
  /\ pc = "scan"
  /\ nread < MaxLines
  /\ \E l \in FileLines :
       LET s == process_msg_line(MsgState, l, package_name)
       IN  /\ line' = l
           /\ message' = s.message
           /\ variablename' = s.variablename
           /\ typename' = s.typename
  /\ nread' = nread + 1
  /\ UNCHANGED <<kind, pc, package_name, tok, first, request, response, resp,
                 goal, result, feedback, border>>

\* process_srv_file reads the next line
SrvLine ==
  /\ kind = "srv"
  /\ pc = "scan"
  /\ nread < MaxLines
  /\ \E l \in FileLines :
       LET s == process_srv_line(SrvState, l, package_name)
       IN  /\ line' = l
           /\ request' = s.request
           /\ response' = s.response
           /\ resp' = s.resp
           /\ variablename' = s.variablename
           /\ typename' = s.typename
  /\ nread' = nread + 1
  /\ UNCHANGED <<kind, pc, package_name, tok, first, message, goal, result,
                 feedback, border>>

\* process_action_file reads the next line
ActionLine ==
  /\ kind = "action"
  /\ pc = "scan"
  /\ nread < MaxLines
  /\ \E l \in FileLines :
       LET s == process_action_line(ActionState, l, package_name)
       IN  /\ line' = l
           /\ goal' = s.goal
           /\ result' = s.result
           /\ feedback' = s.feedback
           /\ border' = s.border
           /\ variablename' = s.variablename
           /\ typename' = s.typename
  /\ nread' = nread + 1
  /\ UNCHANGED <<kind, pc, package_name, tok, first, message, request,
                 response, resp>>

\* lines 93-94, 115-116, 140-141: the file is exhausted, close and return
Return ==
  /\ kind \in {"msg", "srv", "action"}
  /\ pc = "scan"
  /\ pc' = "done"
  /\ UNCHANGED <<kind, package_name, line, tok, first, variablename, typename,
                 nread, message, request, response, resp, goal, result,
                 feedback, border>>

Next == MsgLine \/ SrvLine \/ ActionLine \/ Return

Spec == Init /\ [][Next]_vars

----------------------------------------------------------------------------
(* Properties of the resolver and the tokenizer (SpecLine).                *)

\* the field line `T NAME`, with or without its newline
FieldLines(T, n) == { T \o <<" ">> \o n \o e : e \in LineEnds }

\* the quoted, default-qualified reference 'pkg/msg/T'
QuotedRef(pkg, T) ==
  <<"'">> \o pkg \o <<"/", "m", "s", "g", "/">> \o T \o <<"'">>

\* C1: for every field line `T NAME` with T an unscoped compound type token
\* and no array annotation, get_type_format returns the name and the type
\* string 'pkgX/msg/T', with no array suffix.
C1_UnscopedCompoundNoSuffix ==
  pc = "formatted" =>
    \A T \in UnscopedCompound, n \in Names :
      line \in FieldLines(T, n) =>
        /\ variablename = n
        /\ typename = QuotedRef(package_name, T)

\* C2: for every field line `T[] NAME` with T an unscoped compound type
\* token, get_type_format returns 'pkgX/msg/T'[] (the array suffix after the
\* closing quote) and never 'pkgX/msg/T[]'.
C2_ArraySuffixAfterQuote ==
  pc = "formatted" =>
    \A T \in UnscopedCompound, n \in Names :
      line \in FieldLines(T \o <<"[", "]">>, n) =>
        /\ variablename = n
        /\ typename = QuotedRef(package_name, T) \o <<"[", "]">>
        /\ typename # QuotedRef(package_name, T \o <<"[", "]">>)

\* C2 witness: `T[] a` has been resolved in package pkgX
C2_Witness ==
  /\ pc = "formatted"
  /\ package_name = <<"p", "k", "g", "X">>
  /\ line = <<"T", "[", "]", " ", "a", "\n">>
  /\ typename = <<"'", "p", "k", "g", "X", "/", "m", "s", "g", "/", "T", "'", "[", "]">>

\* C3: for every field line `T NAME` with T one of the sixteen primitive
\* names or the array form `X[]` of one of them, get_type_format returns
\* (NAME, T) with T unchanged, whatever the declaring package.
C3_PrimitiveUnchanged ==
  pc = "formatted" =>
    \A T \in ScalarPrimitives \cup { s \o <<"[", "]">> : s \in ScalarPrimitives },
       n \in Names :
      line \in FieldLines(T, n) =>
        /\ variablename = n
        /\ typename = T

\* C10 as stated: for every significant field line, split_line applied to
\* the line its first result normalizes to yields that first result again.
C10_Idempotent ==
  pc = "retokenized" => tok = first

\* C10 amended: the same, for the lines whose type token holds no "/".
C10_IdempotentNoSlash ==
  (pc = "retokenized" /\ ~Contains(first[1], <<"/">>)) => tok = first

\* C10 witness: a line with a collapsed array annotation, a name and no "/"
\* has been tokenized twice
C10_Witness ==
  /\ pc = "retokenized"
  /\ first = << <<"i", "n", "t", "3", "2", "[", "]">>, <<"a">> >>
  /\ tok = first

----------------------------------------------------------------------------
(* Properties of the entity builders (Spec).                               *)

\* the six FieldSets, in the order message, request, response, goal,
\* result, feedback
Stored == <<message, request, response, goal, result, feedback>>

\* dict d holds the entry k: v
HasEntry(d, k, v) == \E i \in 1..Len(d) : d[i].k = k /\ d[i].v = v

\* the number of entries of dict d under key k
Count(d, k) == Cardinality({i \in 1..Len(d) : d[i].k = k})

\* a builder has just read a line
ReadsLine == nread' = nread + 1

\* a separator line: one that contains "---" (section 6 of the spec)
SeparatorLine(l) ==
  \E i \in 3..Len(l) : l[i - 2] = "-" /\ l[i - 1] = "-" /\ l[i] = "-"

\* a field line: no separator, and the resolver yields a type for it
FieldLine(l) ==
  ~SeparatorLine(l) /\ TypeFormat(l, package_name)[2] # None

\* the name and the resolved type of line l
NameOf(l) == TypeFormat(l, package_name)[1]
TypeOf(l) == TypeFormat(l, package_name)[2]

\* C5: in process_srv_file a separator line puts the builder in RESPONSE
\* and writes nothing; a field line read before the first separator is
\* written to request only, one read after it to response only; once in
\* RESPONSE the builder stays there and request never changes again.
C5_SrvSections ==
  [][ (kind = "srv" /\ ReadsLine) =>
        /\ SeparatorLine(line') =>
             resp' /\ request' = request /\ response' = response
        /\ (FieldLine(line') /\ ~resp) =>
             /\ HasEntry(request', NameOf(line'), TypeOf(line'))
             /\ response' = response
             /\ ~resp'
        /\ (FieldLine(line') /\ resp) =>
             /\ HasEntry(response', NameOf(line'), TypeOf(line'))
             /\ request' = request
        /\ resp => (resp' /\ request' = request) ]_vars

\* C5 witness: a further separator has been read after fields were written
\* to both request and response
C5_Witness ==
  /\ kind = "srv"
  /\ SeparatorLine(line)
  /\ resp
  /\ request # EmptyDict
  /\ response # EmptyDict

\* C6: in process_action_file each separator line adds one to the section
\* index and writes nothing; a field line read at index k is written only
\* to goal (k = 0), result (k = 1) or feedback (k = 2), and at k >= 3 it is
\* dropped: goal, result and feedback all stay as they are.
C6_ActionSections ==
  [][ (kind = "action" /\ ReadsLine) =>
        /\ SeparatorLine(line') =>
             border' = border + 1 /\ Stored' = Stored
        /\ FieldLine(line') =>
             /\ border' = border
             /\ border = 0 =>
                  /\ HasEntry(goal', NameOf(line'), TypeOf(line'))
                  /\ result' = result /\ feedback' = feedback
             /\ border = 1 =>
                  /\ HasEntry(result', NameOf(line'), TypeOf(line'))
                  /\ goal' = goal /\ feedback' = feedback
             /\ border = 2 =>
                  /\ HasEntry(feedback', NameOf(line'), TypeOf(line'))
                  /\ goal' = goal /\ result' = result
             /\ border >= 3 => Stored' = Stored ]_vars

\* C6 witness: a field line has been read after a third separator, and the
\* three FieldSets are still empty
C6_Witness ==
  /\ kind = "action"
  /\ border = 3
  /\ FieldLine(line)
  /\ goal = EmptyDict /\ result = EmptyDict /\ feedback = EmptyDict

\* the FieldSet (as an index of Stored) the running builder writes to, 0
\* when it writes to none
ActiveSection ==
  CASE kind = "msg" -> 1
    [] kind = "srv" -> IF resp THEN 3 ELSE 2
    [] kind = "action" -> IF border <= 2 THEN 4 + border ELSE 0
    [] OTHER -> 0

\* C9: when a field line declares a name in a section, that section then
\* holds exactly one entry for the name, whose value is the resolved type of
\* this (the last) declaration, whether or not the name was declared before;
\* the entries of all other names stay as they were.
C9_LastWriteWins ==
  [][ (ReadsLine /\ FieldLine(line') /\ NameOf(line') # None
       /\ ActiveSection # 0) =>
        LET d == Stored[ActiveSection]
            e == Stored'[ActiveSection]
            n == NameOf(line')
        IN  /\ Count(e, n) = 1
            /\ HasEntry(e, n, TypeOf(line'))
            /\ \A i \in 1..Len(d) : d[i].k # n => HasEntry(e, d[i].k, d[i].v)
            /\ Len(e) = Len(d) + (IF Count(d, n) = 0 THEN 1 ELSE 0) ]_vars

\* C9 witness: `string a` has been read after a was declared (before ab)
\* with another type, and a holds the later type in its first position
C9_Witness ==
  /\ kind = "msg"
  /\ line = <<"s", "t", "r", "i", "n", "g", " ", "a", "\n">>
  /\ message = << [k |-> <<"a">>, v |-> <<"s", "t", "r", "i", "n", "g">>],
                  [k |-> <<"a", "b">>, v |-> <<"'", "p", "k", "g", "X", "/", "m", "s", "g", "/", "T", "'", "[", "]">>] >>

\* the FieldSets of builder k after it scans the lines c from the locals
\* ms (process_msg_file), ss (process_srv_file) or as (process_action_file)
RECURSIVE Built(_, _, _, _, _)
Built(k, ms, ss, as, c) ==
  IF c = <<>>
  THEN <<ms.message, ss.request, ss.response, as.goal, as.result, as.feedback>>
  ELSE Built(k,
             IF k = "msg" THEN process_msg_line(ms, Head(c), package_name) ELSE ms,
             IF k = "srv" THEN process_srv_line(ss, Head(c), package_name) ELSE ss,
             IF k = "action" THEN process_action_line(as, Head(c), package_name) ELSE as,
             Tail(c))

\* what the rest of a file may hold: nothing, or one more line
Suffixes == {<<>>} \cup { <<l>> : l \in FileLines }

\* the type tokens of the field-line grammar, without annotation
TypeTokens == ScalarPrimitives \cup UnscopedCompound \cup ScopedCompound

\* C4: a field line whose type token carries a bracket annotation, in any
\* of the notations `[]`, `[N]`, `[<=N]`, leaves every FieldSet of the
\* running builder exactly as the same line written with the plain `[]`
\* marker would: the field is stored under its name with the same type.
C4_AnnotationsCollapse ==
  [][ ReadsLine =>
        \A T \in TypeTokens, an \in Annotations \ {<<>>}, n \in Names :
          line' = T \o an \o <<" ">> \o n \o <<"\n">> =>
            /\ Stored' = Built(kind, MsgState, SrvState, ActionState,
                               << T \o <<"[", "]", " ">> \o n \o <<"\n">> >>)
            /\ ActiveSection # 0 =>
                 HasEntry(Stored'[ActiveSection], n, TypeOf(line')) ]_vars

\* a pure comment, a constant declaration, or an empty or whitespace-only
\* line
NoiseLine(l) ==
  \/ (Len(l) > 0 /\ l[1] = "#")
  \/ \E i \in 1..Len(l) : l[i] = "="
  \/ \A i \in 1..Len(l) : IsWs(l[i])

\* C7: a pure comment, a constant declaration or a blank line tokenizes to
\* (None, None), and the entity a builder returns is the one it returns for
\* the same file without that line, whatever follows the line in the file.
C7_NoiseLinesContributeNothing ==
  [][ (ReadsLine /\ NoiseLine(line')) =>
        /\ split_line(line') = <<None, None>>
        /\ \A c \in Suffixes :
             Built(kind, MsgState', SrvState', ActionState', c)
               = Built(kind, MsgState, SrvState, ActionState, c) ]_vars

\* C8: a line that holds a type token and no name adds no entry to any
\* FieldSet.
C8_IncompleteLineSkipped ==
  [][ ReadsLine =>
        \A T \in TypeTokens :
          line' = T \o <<"\n">> => Stored' = Stored ]_vars

====
